---- MODULE Spec2Model ----
(***************************************************************************)
(* A model of the Go Bloom filter of godwhoa/pbloom (go/pbloom.go).        *)
(*                                                                         *)
(* A Filter is the pair (bits, k) plus a murmur3 digest it owns.  The      *)
(* caller holds one *Filter in the variable f and calls the package's      *)
(* constructors and methods on it; every call is one action, and the       *)
(* arguments and results of the last call are kept in call and ret.        *)
(* 64-bit unsigned values are kept as four 16-bit limbs, least             *)
(* significant first, so that h1 + i*h2 wraps at 2^64 as it does in Go.    *)
(* float64 quantities are kept in fixed point with five decimals.          *)
(***************************************************************************)
EXTENDS Integers, Sequences, FiniteSets, TLC

VARIABLES
  f,         \* the *Filter the caller holds (NilFilter: a nil pointer)
  call,      \* the last call: [op, args, again]
  ret,       \* what the last call returned: [err, exists, data]
  hasher,    \* the bytes written to f.hasher since its last Reset
  inserted,  \* history: the keys Put into f since it was constructed
  panicked,  \* "" or the runtime panic that ended the program
  pc,        \* concurrent readers: each reader's position inside Exists
  rkey,      \* concurrent readers: the key each reader was called with
  rsum,      \* concurrent readers: the (h1, h2) each reader took from Sum128
  rret       \* concurrent readers: what each reader's Exists returned

vars == <<f, call, ret, hasher, inserted, panicked, pc, rkey, rsum, rret>>

-----------------------------------------------------------------------------
(* Bounds of the model. *)

\* Keys are the byte strings over KeyBytes of length at most MaxKeyLen.
MaxKeyLen == 2

KeyBytes == {97}

RECURSIVE StringsUpTo(_)
StringsUpTo(n) ==
  IF n = 0 THEN {<<>>}
  ELSE LET shorter == StringsUpTo(n - 1)
       IN shorter \cup {Append(s, b) : s \in shorter, b \in KeyBytes}

Keys == StringsUpTo(MaxKeyLen)

Readers == {1, 2}

-----------------------------------------------------------------------------
(* The Filter struct. *)

NilFilter == [isNil |-> TRUE, nilBits |-> TRUE, bits |-> <<>>, k |-> 0]

\* &Filter{bits: bits, k: k, hasher: murmur3.New128()}; nilBits tells a nil
\* slice from an empty one.
NewFilter(nilBits, bits, k) ==
  [isNil |-> FALSE, nilBits |-> nilBits, bits |-> bits, k |-> k]

Zeros(n) == [j \in 1..n |-> 0]

Pow2(n) == 2 ^ n

-----------------------------------------------------------------------------
(* murmur3.Hash128: Sum128 of the bytes written since Reset.  The model's   *)
(* keys are strings of the letter a, so the digest holds a string of a's;  *)
(* the table gives the MurmurHash3 x64 128 digest (seed 0) of each length  *)
(* as (h1, h2), each in four 16-bit limbs, least significant first.        *)

Sum128(p) ==
  CASE Len(p) = 0 -> <<<<0, 0, 0, 0>>, <<0, 0, 0, 0>>>>
    [] Len(p) = 1 -> <<<<30857, 63065, 21861, 34133>>, <<35162, 20750, 14920, 59061>>>>
    [] Len(p) = 2 -> <<<<41839, 1275, 28980, 46913>>, <<17977, 40013, 64322, 39024>>>>
    [] Len(p) = 3 -> <<<<28139, 48088, 45485, 48703>>, <<63242, 42136, 45813, 27909>>>>
    [] Len(p) = 4 -> <<<<59359, 55148, 62962, 4395>>, <<44991, 63520, 17699, 56993>>>>
    [] Len(p) = 5 -> <<<<26669, 20477, 34520, 48632>>, <<31946, 26071, 4412, 2857>>>>
    [] Len(p) = 6 -> <<<<32749, 1605, 12110, 40902>>, <<28621, 50381, 44598, 43132>>>>
    [] Len(p) = 7 -> <<<<17509, 51926, 38172, 51006>>, <<6810, 24697, 41828, 42845>>>>
    [] Len(p) = 8 -> <<<<13369, 62321, 6362, 634>>, <<4082, 53228, 40503, 51099>>>>

-----------------------------------------------------------------------------
(* uint64 arithmetic of the hash loop. *)

\* (h1 + i*h2) in uint64: limb by limb with carry, the carry out of the top
\* limb dropped.
AddMul64(h1, i, h2) ==
  LET t1 == h1[1] + i * h2[1]
      t2 == h1[2] + i * h2[2] + (t1 \div 65536)
      t3 == h1[3] + i * h2[3] + (t2 \div 65536)
      t4 == h1[4] + i * h2[4] + (t3 \div 65536)
  IN <<t1 % 65536, t2 % 65536, t3 % 65536, t4 % 65536>>

\* x % M for a uint64 x in limbs and 0 < M <= 32768.
Mod64(x, M) ==
  LET r4 == x[4] % M
      r3 == (r4 * 65536 + x[3]) % M
      r2 == (r3 * 65536 + x[2]) % M
  IN (r2 * 65536 + x[1]) % M

\* hash := (h1 + i*h2) % M
HashIndex(sum, i, M) == Mod64(AddMul64(sum[1], i, sum[2]), M)

\* b & (1 << off) != 0 on a byte.
TestBit(b, off) == (b \div Pow2(off)) % 2 = 1

\* b after b |= 1 << off for every off in offs.
OrBits(b, offs) ==
  LET bit(o) == IF TestBit(b, o) \/ o \in offs THEN Pow2(o) ELSE 0
  IN bit(0) + bit(1) + bit(2) + bit(3) + bit(4) + bit(5) + bit(6) + bit(7)

\* The hash of every round of the loop: i = 0 .. k-1.
Hashes(sum, k, M) == {HashIndex(sum, i, M) : i \in 0..(k - 1)}

\* The loop of Put stopping one round early: i < k-1.
PutLoopOffByOne(bits, sum, k, M) ==
  LET hashes == Hashes(sum, k - 1, M)
  IN [j \in 1..Len(bits) |->
        OrBits(bits[j], {h % 8 : h \in {x \in hashes : x \div 8 = j - 1}})]

\* The loop of Put with = for |=: a byte holds the bit of the last round that
\* wrote it.
PutLoopAssign(bits, sum, k, M) ==
  [j \in 1..Len(bits) |->
     LET rounds == {i \in 0..(k - 1) : HashIndex(sum, i, M) \div 8 = j - 1}
     IN IF rounds = {} THEN bits[j]
        ELSE LET last == CHOOSE i \in rounds : \A x \in rounds : x <= i
             IN Pow2(HashIndex(sum, last, M) % 8)]

\* The loop of Put with ^= for |=: a bit flips once for every round that
\* hits it.
PutLoopXor(bits, sum, k, M) ==
  [j \in 1..Len(bits) |->
     LET rounds == {i \in 0..(k - 1) : HashIndex(sum, i, M) \div 8 = j - 1}
         flips(o) ==
           Cardinality({i \in rounds : HashIndex(sum, i, M) % 8 = o}) % 2 = 1
         bit(o) == IF TestBit(bits[j], o) # flips(o) THEN Pow2(o) ELSE 0
     IN bit(0) + bit(1) + bit(2) + bit(3) + bit(4) + bit(5) + bit(6) + bit(7)]

\* The loop of Put: f.bits[hash/8] |= 1 << (hash % 8) for the hash of every
\* round.  Setting a bit twice or in another order gives the same bitmap, so
\* the bitmap after the loop is given byte by byte.
PutLoop(bits, sum, k, M) ==
  LET hashes == Hashes(sum, k, M)
  IN [j \in 1..Len(bits) |->
        OrBits(bits[j], {h % 8 : h \in {x \in hashes : x \div 8 = j - 1}})]

\* The loop of Exists answering true at the first round whose bit is 1.
ExistsLoopAny(bits, sum, k, M) ==
  \E i \in 0..(k - 1) :
    LET hash == HashIndex(sum, i, M)
    IN TestBit(bits[(hash \div 8) + 1], hash % 8)

\* The loop of Exists: false at the first round whose bit is 0, true when
\* there is none.
ExistsLoop(bits, sum, k, M) ==
  \A i \in 0..(k - 1) :
    LET hash == HashIndex(sum, i, M)
    IN TestBit(bits[(hash \div 8) + 1], hash % 8)

\* M := uint64(len(f.bits) * 8)
BitCount(flt) == Len(flt.bits) * 8

\* The loop runs at least once with M = 0: integer divide by zero.
DividesByZero(flt) == BitCount(flt) = 0 /\ flt.k > 0

\* f.hasher.Reset(); f.hasher.Write(key): the digest then holds key alone.
HasherReset == <<>>

HasherWrite(h, key) == h \o key

\* The bitmap Put leaves given the sum it took from the hasher, for a Filter
\* it does not panic on.
PutWith(flt, sum) == PutLoop(flt.bits, sum, flt.k, BitCount(flt))

\* What Exists returns given the sum it took from the hasher, for a Filter
\* it does not panic on.
ExistsWith(flt, sum) == ExistsLoop(flt.bits, sum, flt.k, BitCount(flt))

\* What a call of Exists(key) that runs alone returns.
ExistsResult(flt, key) ==
  ExistsWith(flt, Sum128(HasherWrite(HasherReset, key)))

-----------------------------------------------------------------------------
(* float64 in fixed point.  A float64 argument is [nan, pct, exp]: NaN, or *)
(* the value pct/100 * 10^-exp.  Logarithms are in units of 1/Scale.       *)

Scale == 10 ^ 5

\* math.Log(2) and math.Pow(math.Log(2), 2), in units of 1/Scale.
Ln2 == 69315

Ln2Sq == 48045

\* math.Log(10), in units of 1/Scale.
Ln10 == 230259

NaN == [nan |-> TRUE, pct |-> 0, exp |-> 0]

Float(pct) == [nan |-> FALSE, pct |-> pct, exp |-> 0]

\* pct/100 * 10^-exp, for 0 < pct < 100.
FloatE(pct, exp) == [nan |-> FALSE, pct |-> pct, exp |-> exp]

\* x <= 0 and x >= 1 on float64: a comparison with NaN is false.
LeZero(x) == ~x.nan /\ x.pct <= 0

GeOne(x) == ~x.nan /\ x.pct >= 100 /\ x.exp = 0

\* -math.Log(x) for the rates 0 < x < 1 the model calls with, in 1/Scale.
NegLogPct(pct) ==
  CASE pct = 1 -> 460517
    [] pct = 5 -> 299573
    [] pct = 50 -> 69315
    [] pct = 90 -> 10536

NegLog(x) == NegLogPct(x.pct) + x.exp * Ln10

CeilDiv(a, b) == (a + b - 1) \div b

\* math.Round(a / b) for a >= 0, b > 0: halves round away from zero.
RoundDiv(a, b) == (2 * a + b) \div (2 * b)

\* uint8(x) for a float64 x holding the integer n >= 0.  Out of range the Go
\* specification leaves the value to the implementation: the low byte
\* (conversion through a wider integer) or the saturated value.
Uint8OfFloat(n) == IF n <= 255 THEN {n} ELSE {n % 256, 255}

-----------------------------------------------------------------------------
(* The constructors.  Each gives the set of outcomes a call can have:      *)
(* [filter, err, panic], with err = "" for a nil error and panic = "" for  *)
(* a call that returns.                                                    *)

Returned(flt) == [filter |-> flt, err |-> "", panic |-> ""]

Failed(msg) == [filter |-> NilFilter, err |-> msg, panic |-> ""]

Panicked(msg) == [filter |-> NilFilter, err |-> "", panic |-> msg]

\* k := math.Ceil((m / float64(entries)) * math.Log(2)) with m = size * 8
SizeK(entries, size) == CeilDiv(size * 8 * Ln2, entries * Scale)

NewFilterFromEntriesAndSizeResult(entries, size) ==
  IF entries <= 0 THEN {Failed("number of entries must be positive")}
  ELSE IF size <= 0 THEN {Failed("size must be positive")}
  ELSE {Returned(NewFilter(FALSE, Zeros(size), k)) :
          k \in Uint8OfFloat(SizeK(entries, size))}

\* size := int(m / 8) after m = math.Ceil(m/8.0) * 8.0, where
\* m = -float64(entries) * math.Log(fpRate) / math.Pow(math.Log(2), 2)
FPSize(entries, fpRate) == CeilDiv(entries * NegLog(fpRate), 8 * Ln2Sq)

\* k := math.Round((m / float64(entries)) * math.Log(2)) with m = size * 8
FPK(entries, size) == RoundDiv(size * 8 * Ln2, entries * Scale)

\* With fpRate = NaN both comparisons of the check are false, m is NaN, and
\* int(NaN) and uint8(NaN) are left to the implementation: int(NaN) is the
\* smallest int64 (make panics) or 0 (an empty bitmap), uint8(NaN) is 0.
NewFilterFromEntriesAndFPResult(entries, fpRate) ==
  IF entries <= 0 THEN {Failed("number of entries must be positive")}
  ELSE IF LeZero(fpRate) \/ GeOne(fpRate)
  THEN {Failed("false positive rate must be between 0 and 1")}
  ELSE IF fpRate.nan
  THEN {Panicked("makeslice: len out of range"),
        Returned(NewFilter(FALSE, Zeros(0), 0))}
  ELSE LET size == FPSize(entries, fpRate)
       IN {Returned(NewFilter(FALSE, Zeros(size), k)) :
             k \in Uint8OfFloat(FPK(entries, size))}

\* bits is [nil, bytes]: a nil slice, or the slice holding bytes.
NewFilterFromBitsResult(bits, k) ==
  IF Len(bits.bytes) = 0 THEN {Failed("bits slice cannot be empty")}
  ELSE IF k = 0 THEN {Failed("number of hash functions must be positive")}
  ELSE {Returned(NewFilter(bits.nil, bits.bytes, k))}

-----------------------------------------------------------------------------
(* MessagePack, as the msgpack Encoder and Decoder write and read it.      *)

Nil == 192
Bin8 == 196
Bin16 == 197
Bin32 == 198
Uint8 == 204
Uint16 == 205
Uint32 == 206
Uint64 == 207
Int8 == 208
Int16 == 209
Int32 == 210
Int64 == 211
Str8 == 217
Str16 == 218
Str32 == 219

IsFixedString(c) == c >= 160 /\ c <= 191

IsFixedNum(c) == c <= 127 \/ c >= 224

Drop(s, n) == SubSeq(s, n + 1, Len(s))

\* EncodeBytesLen that always writes the one-byte length form.
EncodeBytesLenBin8(l) == <<Bin8, l % 256>>

\* enc.EncodeBytesLen(l)
EncodeBytesLen(l) ==
  IF l < 256 THEN <<Bin8, l>>
  ELSE IF l <= 65535 THEN <<Bin16, l \div 256, l % 256>>
  ELSE <<Bin32, l \div 16777216, (l \div 65536) % 256, (l \div 256) % 256,
         l % 256>>

\* enc.EncodeBytes(f.bits): a nil slice is written as nil.
EncodeBytes(nilBits, bits) ==
  IF nilBits THEN <<Nil>> ELSE EncodeBytesLen(Len(bits)) \o bits

\* enc.EncodeUint8(f.k)
EncodeUint8(n) == <<Uint8, n>>

\* The length the code c announces, read from rest: [err, n, rest], n = -1
\* for nil.  A 32-bit length of 2^31 or more is longer than any input here.
BytesLen(c, rest) ==
  IF c = Nil THEN [err |-> "", n |-> -1, rest |-> rest]
  ELSE IF IsFixedString(c) THEN [err |-> "", n |-> c - 160, rest |-> rest]
  ELSE IF c \in {Str8, Bin8}
  THEN IF Len(rest) < 1 THEN [err |-> "EOF", n |-> 0, rest |-> rest]
       ELSE [err |-> "", n |-> rest[1], rest |-> Drop(rest, 1)]
  ELSE IF c \in {Str16, Bin16}
  THEN IF Len(rest) < 2 THEN [err |-> "unexpected EOF", n |-> 0, rest |-> rest]
       ELSE [err |-> "", n |-> rest[1] * 256 + rest[2], rest |-> Drop(rest, 2)]
  ELSE IF c \in {Str32, Bin32}
  THEN IF Len(rest) < 4 THEN [err |-> "unexpected EOF", n |-> 0, rest |-> rest]
       ELSE IF rest[1] >= 128
       THEN [err |-> "unexpected EOF", n |-> 0, rest |-> rest]
       ELSE [err |-> "",
             n |-> rest[1] * 16777216 + rest[2] * 65536 + rest[3] * 256 + rest[4],
             rest |-> Drop(rest, 4)]
  ELSE [err |-> "msgpack: invalid code decoding string/bytes length",
        n |-> 0, rest |-> rest]

\* dec.DecodeBytes(): [err, nil, bytes, rest]
DecodeBytes(data) ==
  IF Len(data) = 0
  THEN [err |-> "EOF", nil |-> TRUE, bytes |-> <<>>, rest |-> data]
  ELSE LET l == BytesLen(data[1], Drop(data, 1))
       IN IF l.err # ""
          THEN [err |-> l.err, nil |-> TRUE, bytes |-> <<>>, rest |-> l.rest]
          ELSE IF l.n = -1
          THEN [err |-> "", nil |-> TRUE, bytes |-> <<>>, rest |-> l.rest]
          ELSE IF Len(l.rest) < l.n
          THEN [err |-> "unexpected EOF", nil |-> TRUE, bytes |-> <<>>,
                rest |-> l.rest]
          ELSE [err |-> "", nil |-> FALSE, bytes |-> SubSeq(l.rest, 1, l.n),
                rest |-> Drop(l.rest, l.n)]

\* The width in bytes of the integer the code c announces (0: not a number
\* code).
IntWidth(c) ==
  CASE c \in {Uint8, Int8} -> 1
    [] c \in {Uint16, Int16} -> 2
    [] c \in {Uint32, Int32} -> 4
    [] c \in {Uint64, Int64} -> 8
    [] OTHER -> 0

\* dec.DecodeUint8(): DecodeUint64 cut to its low byte: [err, n].  Nil is 0,
\* a fixed number is its own byte, a wider integer its last byte.
DecodeUint8(data) ==
  IF Len(data) = 0 THEN [err |-> "EOF", n |-> 0]
  ELSE LET c == data[1]
           w == IntWidth(c)
       IN IF c = Nil THEN [err |-> "", n |-> 0]
          ELSE IF IsFixedNum(c) THEN [err |-> "", n |-> c]
          ELSE IF w = 0
          THEN [err |-> "msgpack: invalid code decoding uint64", n |-> 0]
          ELSE IF Len(data) < 1 + w
          THEN [err |-> IF w = 1 \/ Len(data) = 1 THEN "EOF"
                        ELSE "unexpected EOF",
                n |-> 0]
          ELSE [err |-> "", n |-> data[1 + w]]

\* (f *Filter) Serialize(): [data, err].  Writing to a bytes.Buffer does not
\* fail.
SerializeResult(flt) ==
  [data |-> EncodeBytes(flt.nilBits, flt.bits) \o EncodeUint8(flt.k),
   err |-> ""]

\* FromSerialized(data): bytes left after the two fields are not looked at.
FromSerializedResult(data) ==
  LET b == DecodeBytes(data)
      n == DecodeUint8(b.rest)
  IN IF b.err # "" THEN Failed(b.err)
     ELSE IF n.err # "" THEN Failed(n.err)
     ELSE Returned(NewFilter(b.nil, b.bytes, n.n))

-----------------------------------------------------------------------------
(* The arguments the caller draws from. *)

EntriesInputs == {-10, 0, 1, 10, 1000}

SizeInputs == {-128, 0, 1, 16, 46, 128}

FPRateInputs ==
  {NaN, Float(-10), Float(0), Float(1), Float(50), Float(90), Float(100),
   Float(150)}

\* A rate next to zero: 1e-100.
TinyRate == FloatE(1, 98)

\* Every combination of the inputs above, the sizings of the package's tests
\* that are not among them, and one entry at the rate next to zero.
SizeCalls == (EntriesInputs \X SizeInputs) \cup {<<500, 128>>}

FPCalls ==
  (EntriesInputs \X FPRateInputs) \cup {<<500, Float(5)>>, <<1, TinyRate>>}

BitsInputs ==
  {[nil |-> TRUE, bytes |-> <<>>], [nil |-> FALSE, bytes |-> <<>>],
   [nil |-> FALSE, bytes |-> <<0, 0>>],
   [nil |-> FALSE, bytes |-> <<255, 0, 170>>]}

KInputs == {0, 3, 100}

BitsCalls == BitsInputs \X KInputs

\* Inputs of FromSerialized that no Serialize wrote: empty, of a foreign
\* type, cut short, and well-formed with an empty bitmap, a zero k, a nil,
\* string or signed field.
RawInputs ==
  {<<>>,
   <<255, 255>>,
   <<114, 97, 110, 100, 111, 109, 32, 98, 121, 116, 101, 115>>,
   <<196, 3, 15>>,
   <<196, 1, 255>>,
   <<196, 1, 255, 204>>,
   <<197, 0>>,
   <<196, 1, 255, 202, 0, 0, 0, 0>>,
   <<196, 0, 204, 5>>,
   <<196, 1, 255, 204, 0>>,
   <<192, 204, 5>>,
   <<161, 65, 204, 1>>,
   <<196, 1, 255, 192>>,
   <<196, 1, 255, 255>>,
   <<196, 1, 255, 208, 255>>,
   <<196, 1, 255, 5>>,
   <<197, 0, 1, 7, 205, 1, 3>>}

\* data cut short: what is left after dropping up to three bytes from its
\* end, and its first up to three bytes.
Truncations(data) ==
  {SubSeq(data, 1, n) :
     n \in {j \in 0..(Len(data) - 1) : j <= 3 \/ j >= Len(data) - 3}}

NoRet == [err |-> "", exists |-> FALSE, data |-> <<>>]

\* A call: its name, its arguments and, for Put, whether the key had been put
\* into f before.
Call(op, args) == [op |-> op, args |-> args, again |-> FALSE]

NoCall == Call("", <<>>)

ReadersOff ==
  /\ pc = [r \in Readers |-> "off"]
  /\ UNCHANGED <<pc, rkey, rsum, rret>>

-----------------------------------------------------------------------------
(* The calls of the sequential caller. *)

\* The caller takes the outcome of a constructor: filter, err := ...
Construct(op, args, outcomes) ==
  /\ panicked = ""
  /\ \E out \in outcomes :
       /\ f' = out.filter
       /\ ret' = [NoRet EXCEPT !.err = out.err]
       /\ panicked' = out.panic
  /\ call' = Call(op, args)
  /\ hasher' = HasherReset
  /\ inserted' = {}

NewFilterFromEntriesAndSize(entries, size) ==
  /\ ReadersOff
  /\ Construct("NewFilterFromEntriesAndSize", <<entries, size>>,
               NewFilterFromEntriesAndSizeResult(entries, size))

NewFilterFromEntriesAndFP(entries, fpRate) ==
  /\ ReadersOff
  /\ Construct("NewFilterFromEntriesAndFP", <<entries, fpRate>>,
               NewFilterFromEntriesAndFPResult(entries, fpRate))

NewFilterFromBits(bits, k) ==
  /\ ReadersOff
  /\ Construct("NewFilterFromBits", <<bits, k>>,
               NewFilterFromBitsResult(bits, k))

FromSerialized(data) ==
  /\ ReadersOff
  /\ Construct("FromSerialized", <<data>>, {FromSerializedResult(data)})

Put(key) ==
  /\ ReadersOff
  /\ panicked = ""
  /\ ~f.isNil
  /\ hasher' = HasherWrite(HasherReset, key)
  /\ IF DividesByZero(f)
     THEN /\ panicked' = "integer divide by zero"
          /\ UNCHANGED <<f, inserted>>
     ELSE /\ f' = [f EXCEPT !.bits = PutWith(f, Sum128(hasher'))]
          /\ inserted' = inserted \cup {key}
          /\ UNCHANGED panicked
  /\ call' = [Call("Put", <<key>>) EXCEPT !.again = key \in inserted]
  /\ ret' = NoRet

Exists(key) ==
  /\ ReadersOff
  /\ panicked = ""
  /\ ~f.isNil
  /\ hasher' = HasherWrite(HasherReset, key)
  /\ IF DividesByZero(f)
     THEN /\ panicked' = "integer divide by zero"
          /\ ret' = NoRet
     ELSE /\ ret' = [NoRet EXCEPT !.exists = ExistsWith(f, Sum128(hasher'))]
          /\ UNCHANGED panicked
  /\ call' = Call("Exists", <<key>>)
  /\ UNCHANGED <<f, inserted>>

Serialize ==
  /\ ReadersOff
  /\ panicked = ""
  /\ ~f.isNil
  /\ LET out == SerializeResult(f)
     IN ret' = [NoRet EXCEPT !.err = out.err, !.data = out.data]
  /\ call' = Call("Serialize", <<>>)
  /\ UNCHANGED <<f, hasher, inserted, panicked>>

\* What the caller can hand to FromSerialized: bytes of its own, or the bytes
\* Serialize has just returned, whole or cut short.
SerializedInputs ==
  IF call.op = "Serialize" THEN {ret.data} \cup Truncations(ret.data)
  ELSE {}

Init ==
  /\ f = NilFilter
  /\ call = NoCall
  /\ ret = NoRet
  /\ hasher = HasherReset
  /\ inserted = {}
  /\ panicked = ""
  /\ pc = [r \in Readers |-> "off"]
  /\ rkey = [r \in Readers |-> <<>>]
  /\ rsum = [r \in Readers |-> Sum128(<<>>)]
  /\ rret = [r \in Readers |-> FALSE]

Next ==
  \/ \E args \in SizeCalls : NewFilterFromEntriesAndSize(args[1], args[2])
  \/ \E args \in FPCalls : NewFilterFromEntriesAndFP(args[1], args[2])
  \/ \E args \in BitsCalls : NewFilterFromBits(args[1], args[2])
  \/ \E data \in RawInputs \cup SerializedInputs : FromSerialized(data)
  \/ \E key \in Keys : Put(key)
  \/ \E key \in Keys : Exists(key)
  \/ Serialize

Spec == Init /\ [][Next]_vars

-----------------------------------------------------------------------------
(* Properties of the sequential caller. *)

\* C1: no false negatives.  Exists(x) returns true for every key x that was
\* Put into the filter before: both the call that has just returned and the
\* answer for every key put so far.
NoFalseNegatives ==
  /\ (call.op = "Exists" /\ panicked = "" /\ call.args[1] \in inserted)
       => ret.exists
  /\ (~f.isNil /\ panicked = "") => \A key \in inserted : ExistsResult(f, key)

\* Exists has returned true for a key put before, in a filter of several
\* rounds that holds two keys and still answers false for a third.
NoFalseNegativesWitness ==
  /\ call.op = "Exists"
  /\ panicked = ""
  /\ call.args[1] \in inserted
  /\ ret.exists
  /\ f.k >= 2
  /\ Cardinality(inserted) >= 2
  /\ \E key \in Keys \ inserted : ~ExistsResult(f, key)

\* C2: round trip.  Serialize returns no error, and FromSerialized of the
\* bytes Serialize has just returned succeeds with a Filter of the same bits
\* and k, which answers Exists like the serialized one for every key.
RoundTrip ==
  [][/\ call'.op = "Serialize" => ret'.err = ""
     /\ (call.op = "Serialize" /\ call'.op = "FromSerialized"
           /\ call'.args[1] = ret.data)
          => /\ ret'.err = ""
             /\ ~f'.isNil
             /\ f'.bits = f.bits
             /\ f'.k = f.k
             /\ ~DividesByZero(f) =>
                  \A key \in Keys : ExistsResult(f', key) = ExistsResult(f, key)
    ]_vars

\* FromSerialized has returned a populated Filter whose bitmap needs the
\* two-byte length form: bytes that only Serialize can have produced.
RoundTripWitness ==
  /\ call.op = "FromSerialized"
  /\ ret.err = ""
  /\ Len(f.bits) >= 256
  /\ \E j \in 1..Len(f.bits) : f.bits[j] # 0
  /\ \E key \in Keys : ExistsResult(f, key)
  /\ \E key \in Keys : ~ExistsResult(f, key)

\* Every bit of byte a is a bit of byte b.
ByteWithin(a, b) == \A o \in 0..7 : TestBit(a, o) => TestBit(b, o)

\* C3: monotonic bitmap.  A call of Put, Exists or Serialize changes neither
\* len(bits) nor k, and leaves every bit that was 1 at 1.
Monotonic ==
  [][call'.op \in {"Put", "Exists", "Serialize"}
       => /\ Len(f'.bits) = Len(f.bits)
          /\ f'.k = f.k
          /\ \A j \in 1..Len(f.bits) :
               f'.bits[j] = f.bits[j] \/ ByteWithin(f.bits[j], f'.bits[j])
    ]_vars

\* Put has set bits in a byte that already held bits of another key.
MonotonicWitness ==
  /\ call.op = "Put"
  /\ panicked = ""
  /\ ~call.again
  /\ Cardinality(inserted) >= 2
  /\ \E j \in 1..Len(f.bits) :
       Cardinality({o \in 0..7 : TestBit(f.bits[j], o)}) >= 3

\* C4: Put is idempotent.  Putting a key that was put into the filter before
\* leaves the bitmap as it was.
PutIdempotent ==
  [][(call'.op = "Put" /\ panicked' = "" /\ call'.again) => f'.bits = f.bits
    ]_vars

\* Put has been called again with a key whose rounds set at least two bits.
PutIdempotentWitness ==
  /\ call.op = "Put"
  /\ panicked = ""
  /\ call.again
  /\ f.k >= 2
  /\ \E j \in 1..Len(f.bits) : f.bits[j] # 0
  /\ call.args[1] # <<>>

\* The outcome of a constructor call that must fail (an error with a nil
\* Filter) or must not (a Filter with a nil error).
ConstructorOutcome(fails) ==
  IF fails THEN ret.err # "" /\ f.isNil /\ panicked = ""
  ELSE ret.err = "" /\ ~f.isNil /\ panicked = ""

\* C5: constructor validation.  NewFilterFromEntriesAndSize fails exactly
\* when entries <= 0 or size <= 0, NewFilterFromEntriesAndFP exactly when
\* entries <= 0, fpRate <= 0 or fpRate >= 1, NewFilterFromBits exactly when
\* bits is empty or k = 0; a failure is an error with a nil Filter, anything
\* else a Filter with a nil error.
ConstructorValidation ==
  /\ call.op = "NewFilterFromEntriesAndSize"
       => ConstructorOutcome(call.args[1] <= 0 \/ call.args[2] <= 0)
  /\ call.op = "NewFilterFromEntriesAndFP"
       => ConstructorOutcome(\/ call.args[1] <= 0
                             \/ LeZero(call.args[2])
                             \/ GeOne(call.args[2]))
  /\ call.op = "NewFilterFromBits"
       => ConstructorOutcome(Len(call.args[1].bytes) = 0 \/ call.args[2] = 0)

\* C6: every Filter that NewFilterFromEntriesAndSize or
\* NewFilterFromEntriesAndFP returns without error has k >= 1 and
\* len(bits) >= 1.
SizedFilterValid ==
  (/\ call.op \in {"NewFilterFromEntriesAndSize", "NewFilterFromEntriesAndFP"}
   /\ ret.err = ""
   /\ panicked = "")
    => ~f.isNil /\ f.k >= 1 /\ Len(f.bits) >= 1

\* C7: every Filter that FromSerialized returns has len(bits) >= 1 and
\* k >= 1; an encoding with an empty bitmap or a zero k is an error with a
\* nil Filter.
FromSerializedValid ==
  call.op = "FromSerialized"
    => IF ret.err = "" THEN ~f.isNil /\ Len(f.bits) >= 1 /\ f.k >= 1
       ELSE f.isNil

\* The input holds, whole, a byte string (bin 8, 16 or 32) followed by an
\* unsigned integer (a positive fixint or uint 8, 16, 32 or 64).
TwoFieldsComplete(data) ==
  /\ Len(data) > 0
  /\ data[1] \in {Bin8, Bin16, Bin32}
  /\ LET b == DecodeBytes(data)
     IN /\ b.err = ""
        /\ Len(b.rest) > 0
        /\ b.rest[1] <= 127 \/ b.rest[1] \in {Uint8, Uint16, Uint32, Uint64}
        /\ DecodeUint8(b.rest).err = ""

\* C8: malformed input.  FromSerialized returns an error and a nil Filter,
\* without panicking, for an input that is empty, ends before both fields
\* are complete, or whose first field is no byte string or second field no
\* unsigned integer.
MalformedRejected ==
  (call.op = "FromSerialized" /\ ~TwoFieldsComplete(call.args[1]))
    => ret.err # "" /\ f.isNil /\ panicked = ""

\* C10: Put and Exists have no failure path.  On a Filter that any of the
\* four constructors returned without error they complete: no division by
\* zero, no index out of range.
PutExistsComplete == call.op \in {"Put", "Exists"} => panicked = ""

\* The caller holds the Filter that the given constructor has just returned
\* without error.
JustReturned(c, r, p, ops) == c.op \in ops /\ r.err = "" /\ p = ""

SizedConstructors ==
  {"NewFilterFromEntriesAndSize", "NewFilterFromEntriesAndFP"}

\* C11: a freshly constructed filter is empty.  Every byte of the bits of a
\* Filter that NewFilterFromEntriesAndSize or NewFilterFromEntriesAndFP has
\* returned without error is zero, and a call of Exists on it before any Put
\* returns false, whatever the key.
FreshFilterEmpty ==
  [][/\ JustReturned(call', ret', panicked', SizedConstructors)
          => \A j \in 1..Len(f'.bits) : f'.bits[j] = 0
     /\ (JustReturned(call, ret, panicked, SizedConstructors)
           /\ call'.op = "Exists")
          => panicked' = "" /\ ~ret'.exists
    ]_vars

\* k is ceil(a / b), for b > 0: the least integer not below a / b.
IsCeilOf(k, a, b) == k * b >= a /\ (k - 1) * b < a

\* k is round(a / b), for a >= 0 and b > 0: the integer nearest to a / b, the
\* greater one at a half.
IsRoundOf(k, a, b) == 2 * a >= (2 * k - 1) * b /\ 2 * a < (2 * k + 1) * b

\* C12: sizing from entries and byte size.  For entries > 0 and size > 0,
\* NewFilterFromEntriesAndSize returns a Filter with len(bits) = size and
\* k = ceil((size * 8 / entries) * ln 2); (1000, 128) gives k = 1 and
\* (500, 128) gives k = 2.
SizingFromSize ==
  (/\ call.op = "NewFilterFromEntriesAndSize"
   /\ call.args[1] > 0
   /\ call.args[2] > 0)
    => /\ JustReturned(call, ret, panicked, SizedConstructors)
       /\ ~f.isNil
       /\ Len(f.bits) = call.args[2]
       /\ IsCeilOf(f.k, call.args[2] * 8 * Ln2, call.args[1] * Scale)
       /\ call.args = <<1000, 128>> => f.k = 1
       /\ call.args = <<500, 128>> => f.k = 2

\* C13: sizing from entries and false-positive rate.  For entries > 0 and
\* 0 < fpRate < 1, NewFilterFromEntriesAndFP returns a Filter whose bit count
\* len(bits) * 8 is the least multiple of 8 not below
\* -entries * ln(fpRate) / ln(2)^2 and whose k is
\* round((len(bits) * 8 / entries) * ln 2); (1000, 0.01) gives 1199 bytes and
\* k = 7, (500, 0.05) gives 390 bytes and k = 4.
SizingFromFP ==
  (/\ call.op = "NewFilterFromEntriesAndFP"
   /\ call.args[1] > 0
   /\ ~call.args[2].nan
   /\ ~LeZero(call.args[2])
   /\ ~GeOne(call.args[2]))
    => /\ JustReturned(call, ret, panicked, SizedConstructors)
       /\ ~f.isNil
       /\ IsCeilOf(Len(f.bits), call.args[1] * NegLog(call.args[2]), 8 * Ln2Sq)
       /\ IsRoundOf(f.k, Len(f.bits) * 8 * Ln2, call.args[1] * Scale)
       /\ call.args = <<1000, Float(1)>> => Len(f.bits) = 1199 /\ f.k = 7
       /\ call.args = <<500, Float(5)>> => Len(f.bits) = 390 /\ f.k = 4

\* Bit number index of the bitmap: bit index % 8 of byte index / 8, bit 0 the
\* least significant.
BitAt(bits, index) == (bits[(index \div 8) + 1] \div (2 ^ (index % 8))) % 2

\* The bit at (h1 + i*h2) mod (len(bits) * 8) is 1 for every round i of key.
AllRoundsSet(flt, key) ==
  \A i \in 0..(flt.k - 1) :
    /\ Len(flt.bits) > 0
    /\ BitAt(flt.bits, HashIndex(Sum128(key), i, Len(flt.bits) * 8)) = 1

\* C14: Exists is a pure query of the bitmap.  Exists(key) returns true
\* exactly when the bit of every round of key is 1, which it is after
\* Put(key); the call leaves bits and k as they were, and the same call made
\* again in the same state returns the same answer.
PureQuery ==
  [][/\ call'.op = "Exists"
          => /\ ret'.exists = AllRoundsSet(f, call'.args[1])
             /\ f'.bits = f.bits
             /\ f'.k = f.k
             /\ (call.op = "Exists" /\ call.args = call'.args)
                  => ret'.exists = ret.exists
     /\ (call'.op = "Put" /\ panicked' = "")
          => AllRoundsSet(f', call'.args[1])
    ]_vars

\* Exists has returned false for a key of which some rounds, but not all,
\* find their bit at 1, in a filter that holds another key.
PureQueryWitness ==
  /\ call.op = "Exists"
  /\ panicked = ""
  /\ ~ret.exists
  /\ inserted # {}
  /\ f.k >= 2
  /\ \E i \in 0..(f.k - 1) :
       BitAt(f.bits, HashIndex(Sum128(call.args[1]), i, Len(f.bits) * 8)) = 1

-----------------------------------------------------------------------------
(* Concurrent readers.  One goroutine builds and populates a Filter; then  *)
(* the readers call Exists on it concurrently and nothing calls Put.  A    *)
(* reader's Exists is the steps of its body: the three calls on the        *)
(* digest f.hasher, which all readers share, and the loop over the bitmap, *)
(* which only reads.  Each call on the digest is taken as one step.        *)

\* The sizings the populating goroutine builds the shared Filter with.
SharedSizings == {<<10, 16>>, <<1000, 1>>}

\* Population is over: the readers may start.
StartReaders ==
  /\ pc = [r \in Readers |-> "off"]
  /\ ~f.isNil
  /\ panicked = ""
  /\ ~DividesByZero(f)
  /\ pc' = [r \in Readers |-> "idle"]
  /\ UNCHANGED <<f, call, ret, hasher, inserted, panicked, rkey, rsum, rret>>

\* Reader r calls f.Exists(key).
ExistsCall(r, key) ==
  /\ pc[r] = "idle"
  /\ pc' = [pc EXCEPT ![r] = "reset"]
  /\ rkey' = [rkey EXCEPT ![r] = key]
  /\ UNCHANGED <<f, call, ret, hasher, inserted, panicked, rsum, rret>>

\* f.hasher.Reset()
ExistsReset(r) ==
  /\ pc[r] = "reset"
  /\ hasher' = HasherReset
  /\ pc' = [pc EXCEPT ![r] = "write"]
  /\ UNCHANGED <<f, call, ret, inserted, panicked, rkey, rsum, rret>>

\* f.hasher.Write(key)
ExistsWrite(r) ==
  /\ pc[r] = "write"
  /\ hasher' = HasherWrite(hasher, rkey[r])
  /\ pc' = [pc EXCEPT ![r] = "sum"]
  /\ UNCHANGED <<f, call, ret, inserted, panicked, rkey, rsum, rret>>

\* h1, h2 := f.hasher.Sum128()
ExistsSum(r) ==
  /\ pc[r] = "sum"
  /\ rsum' = [rsum EXCEPT ![r] = Sum128(hasher)]
  /\ pc' = [pc EXCEPT ![r] = "loop"]
  /\ UNCHANGED <<f, call, ret, hasher, inserted, panicked, rkey, rret>>

\* The loop over the rounds and the return of its answer.
ExistsAnswer(r) ==
  /\ pc[r] = "loop"
  /\ rret' = [rret EXCEPT ![r] = ExistsWith(f, rsum[r])]
  /\ pc' = [pc EXCEPT ![r] = "done"]
  /\ UNCHANGED <<f, call, ret, hasher, inserted, panicked, rkey, rsum>>

\* The reader has used the answer and is ready for its next call.
ExistsDone(r) ==
  /\ pc[r] = "done"
  /\ pc' = [pc EXCEPT ![r] = "idle"]
  /\ rkey' = [rkey EXCEPT ![r] = <<>>]
  /\ rsum' = [rsum EXCEPT ![r] = Sum128(<<>>)]
  /\ rret' = [rret EXCEPT ![r] = FALSE]
  /\ UNCHANGED <<f, call, ret, hasher, inserted, panicked>>

NextConc ==
  \/ \E sizing \in SharedSizings :
       NewFilterFromEntriesAndSize(sizing[1], sizing[2])
  \/ \E key \in Keys : Put(key)
  \/ StartReaders
  \/ \E r \in Readers, key \in Keys : ExistsCall(r, key)
  \/ \E r \in Readers : ExistsReset(r)
  \/ \E r \in Readers : ExistsWrite(r)
  \/ \E r \in Readers : ExistsSum(r)
  \/ \E r \in Readers : ExistsAnswer(r)
  \/ \E r \in Readers : ExistsDone(r)

SpecConc == Init /\ [][NextConc]_vars

\* C9: concurrent readers are safe.  With no Put in flight, a call of Exists
\* that runs concurrently with other calls of Exists returns what it would
\* return run alone; in particular true for every key put before.
ConcurrentReadersSafe ==
  \A r \in Readers :
    pc[r] = "done"
      => /\ rret[r] = ExistsResult(f, rkey[r])
         /\ rkey[r] \in inserted => rret[r]

====
